---- MODULE Spec2Model ----
(***************************************************************************)
(* Driver Attendance API (src/main.py): the two collections of the         *)
(* document store, the request handlers that read and write them, and the  *)
(* pure helpers (ObjectId parsing, date normalisation, serialisation).     *)
(*                                                                         *)
(* Identifier strings and date strings are sequences of one-character      *)
(* strings, so that parsing and formatting are computed, not assumed.      *)
(* Every Optional[str] is a set with at most one element: {} is None.      *)
(***************************************************************************)
EXTENDS Integers, Sequences, FiniteSets, TLC

VARIABLES driver, attendance, req

vars == <<driver, attendance, req>>

(***************************************************************************)
(* Bounds of the model.                                                    *)
(***************************************************************************)
MaxDrivers == 2

MaxAttendance == 2

\* Request slots: Spec runs both concurrently, SeqSpec runs one alone.
Procs == {1, 2}

SeqProcs == {1}

None == {}

Some(s) == {s}

(***************************************************************************)
(* bson.ObjectId as main.py uses it: ObjectId(s) accepts a string of       *)
(* exactly OidHexLen hexadecimal characters of either case and raises      *)
(* otherwise; str(oid) is the lower-case hexadecimal form.  An ObjectId    *)
(* value is modelled by the number it encodes.  The real length is 24; the *)
(* model scales it to 2 characters.                                        *)
(***************************************************************************)
OidHexLen == 2

HexLower == <<"0","1","2","3","4","5","6","7","8","9","a","b","c","d","e","f">>

HexUpper == <<"0","1","2","3","4","5","6","7","8","9","A","B","C","D","E","F">>

IsHexChar(c) == \E i \in 1..16 : HexLower[i] = c \/ HexUpper[i] = c

HexVal(c) == (CHOOSE i \in 1..16 : HexLower[i] = c \/ HexUpper[i] = c) - 1

RECURSIVE HexToNat(_)
HexToNat(s) == IF s = <<>> THEN 0
               ELSE 16 * HexToNat(SubSeq(s, 1, Len(s) - 1)) + HexVal(s[Len(s)])

RECURSIVE Pow16(_)
Pow16(n) == IF n = 0 THEN 1 ELSE 16 * Pow16(n - 1)

\* ObjectId(s): whether it succeeds, and its value when it does
ObjectIdParse(s) ==
    IF Len(s) = OidHexLen /\ \A i \in 1..Len(s) : IsHexChar(s[i])
    THEN [valid |-> TRUE, oid |-> HexToNat(s)]
    ELSE [valid |-> FALSE, oid |-> 0]

\* str(oid)
ObjectIdFormat(oid) == [i \in 1..OidHexLen |->
                          HexLower[((oid \div Pow16(OidHexLen - i)) % 16) + 1]]

ToUpperChar(c) == IF \E k \in 1..16 : HexLower[k] = c
                  THEN HexUpper[CHOOSE k \in 1..16 : HexLower[k] = c]
                  ELSE c

\* str.upper(), on the characters of identifiers
Upper(s) == [i \in 1..Len(s) |-> ToUpperChar(s[i])]

\* The identifier strings of the model, and the conversions tabulated over
\* them (computed once, looked up by the handlers).
AllOids == 0..(Pow16(OidHexLen) - 1)

OidStrTable == [oid \in AllOids |-> ObjectIdFormat(oid)]

OidStr(oid) == OidStrTable[oid]

UnknownId == <<"f", "f">>

MalformedId == <<"z", "z">>

EmptyStr == <<>>

IdStrings == {OidStrTable[oid] : oid \in AllOids}
                 \cup {Upper(OidStrTable[oid]) : oid \in AllOids}
                 \cup {MalformedId, EmptyStr}

ObjectIdTable == [s \in IdStrings |-> ObjectIdParse(s)]

\* ObjectId(s) succeeds
ObjectIdValid(s) == ObjectIdTable[s].valid

\* the value of ObjectId(s), for a valid s
ObjectId(s) == ObjectIdTable[s].oid

ToUpperTable == [s \in IdStrings |-> Upper(s)]

ToUpper(s) == ToUpperTable[s]

(***************************************************************************)
(* normalize_date: datetime.strptime(s, "%Y-%m-%d").strftime("%Y-%m-%d").  *)
(* strptime wants three '-'-separated fields of digits: a 4-digit year, a  *)
(* month of one or two digits in 1..12, a day of one or two digits in      *)
(* 1..31 that exists in that month; strftime pads month and day to two     *)
(* digits.                                                                 *)
(***************************************************************************)
Digits == <<"0","1","2","3","4","5","6","7","8","9">>

IsDigit(c) == \E i \in 1..10 : Digits[i] = c

DigitVal(c) == (CHOOSE i \in 1..10 : Digits[i] = c) - 1

RECURSIVE DecToNat(_)
DecToNat(s) == IF s = <<>> THEN 0
               ELSE 10 * DecToNat(SubSeq(s, 1, Len(s) - 1)) + DigitVal(s[Len(s)])

AllDigits(s) == \A i \in 1..Len(s) : IsDigit(s[i])

\* the fields of s between '-' characters
RECURSIVE SplitDash(_)
SplitDash(s) ==
    IF \A i \in 1..Len(s) : s[i] # "-" THEN <<s>>
    ELSE LET k == CHOOSE i \in 1..Len(s) :
                     s[i] = "-" /\ \A j \in 1..(i - 1) : s[j] # "-"
         IN  <<SubSeq(s, 1, k - 1)>> \o SplitDash(SubSeq(s, k + 1, Len(s)))

IsLeap(y) == (y % 4 = 0 /\ y % 100 # 0) \/ y % 400 = 0

DaysInMonth(y, m) ==
    IF m = 2 THEN (IF IsLeap(y) THEN 29 ELSE 28)
    ELSE IF m \in {4, 6, 9, 11} THEN 30 ELSE 31

\* strptime(s, "%Y-%m-%d") succeeds
StrptimeOk(s) ==
    LET f == SplitDash(s) IN
    /\ Len(f) = 3
    /\ Len(f[1]) = 4 /\ AllDigits(f[1]) /\ DecToNat(f[1]) >= 1
    /\ Len(f[2]) \in 1..2 /\ AllDigits(f[2]) /\ DecToNat(f[2]) \in 1..12
    /\ Len(f[3]) \in 1..2 /\ AllDigits(f[3]) /\ DecToNat(f[3]) \in 1..31
    /\ DecToNat(f[3]) <= DaysInMonth(DecToNat(f[1]), DecToNat(f[2]))

RECURSIVE Pow10(_)
Pow10(n) == IF n = 0 THEN 1 ELSE 10 * Pow10(n - 1)

\* n in decimal, zero-padded to width digits
Pad(n, width) == [i \in 1..width |-> Digits[((n \div Pow10(width - i)) % 10) + 1]]

\* strftime("%Y-%m-%d") of the parsed date
Strftime(s) ==
    LET f == SplitDash(s) IN
    Pad(DecToNat(f[1]), 4) \o <<"-">> \o Pad(DecToNat(f[2]), 2)
        \o <<"-">> \o Pad(DecToNat(f[3]), 2)

\* normalize_date: [ok, value]; ok = FALSE is HTTPException(400)
NormalizeDate(date_str) ==
    IF StrptimeOk(date_str) THEN [ok |-> TRUE, value |-> Strftime(date_str)]
    ELSE [ok |-> FALSE, value |-> <<>>]

\* The date strings of the model, and normalize_date tabulated over them
Date1 == <<"2","0","2","4","-","0","1","-","0","5">>

Date1Short == <<"2","0","2","4","-","1","-","5">>

Date2 == <<"2","0","2","4","-","0","2","-","2","9">>

DateSlash == <<"2","0","2","4","/","0","1","/","0","5">>

DateNoSuchDay == <<"2","0","2","3","-","0","2","-","2","9">>

DateWords == <<"n","o","t","-","a","-","d","a","t","e">>

DateStrings == {Date1, Date1Short, Date2, DateSlash, DateNoSuchDay, DateWords, EmptyStr}

NormalizeTable == [s \in DateStrings |-> NormalizeDate(s)]

normalize_date(date_str) == NormalizeTable[date_str]

(***************************************************************************)
(* The document store.  A collection is the sequence of its documents in   *)
(* insertion order; a document is a function from field names to values;   *)
(* the empty function stands for "no document" (None).  A filter is a      *)
(* document of required field values (equality match).                     *)
(***************************************************************************)
NoDoc == <<>>

\* Python truthiness of a find_one result: None and {} are falsy
Truthy(doc) == DOMAIN doc # {}

Matches(doc, filter) ==
    \A k \in DOMAIN filter : k \in DOMAIN doc /\ doc[k] = filter[k]

\* the position of the first document of coll that matches filter, 0 if none
FirstMatch(coll, filter) ==
    LET hits == {i \in 1..Len(coll) : Matches(coll[i], filter)} IN
    IF hits = {} THEN 0 ELSE CHOOSE i \in hits : \A j \in hits : i <= j

\* collection.find_one(filter): the first match in natural order, or None
find_one(coll, filter) ==
    LET k == FirstMatch(coll, filter) IN IF k = 0 THEN NoDoc ELSE coll[k]

\* collection.update_one(filter, {"$set": fields}): the first match gets the fields
update_one(coll, filter, fields) ==
    LET k == FirstMatch(coll, filter) IN
    IF k = 0 THEN coll ELSE [coll EXCEPT ![k] = fields @@ @]

\* The store generates a fresh ObjectId for every insert.  The model's
\* generator numbers the documents of a collection from a base of its own
\* (drivers from 0a, attendance records from a0); no document is ever
\* deleted, so the identifier is new.
OidBase(name) == IF name = "driver" THEN HexToNat(<<"0", "a">>)
                 ELSE HexToNat(<<"a", "0">>)

NewOid(name, coll) == OidBase(name) + Len(coll)

\* database.create_document(name, data): the collection after the insert of
\* data under a fresh identifier (the call returns str of that identifier)
create_document(name, coll, data) ==
    Append(coll, [_id |-> NewOid(name, coll)] @@ data)

\* database.get_documents(name, filter): the matching documents, in order
get_documents(coll, filter) == SelectSeq(coll, LAMBDA d : Matches(d, filter))

\* serialize_id: the internal _id becomes the public string id
serialize_id(doc) ==
    IF ~Truthy(doc) THEN doc
    ELSE IF "_id" \in DOMAIN doc
    THEN [k \in (DOMAIN doc \ {"_id"}) \cup {"id"} |->
            IF k = "id" THEN OidStr(doc["_id"]) ELSE doc[k]]
    ELSE doc

SerializeAll(docs) == [i \in 1..Len(docs) |-> serialize_id(docs[i])]

\* datetime.utcnow(): the handlers store the reading and never compare it
utcnow == "utcnow"

(***************************************************************************)
(* Request inputs.  A client sends as driver_id an identifier the API gave *)
(* it, the first driver's identifier upper-cased, a well-formed identifier *)
(* of no driver, or a malformed string.                                    *)
(***************************************************************************)
KnownIds == {OidStr(driver[i]["_id"]) : i \in 1..Len(driver)}

FirstId == OidStr(OidBase("driver"))

GoodIds == KnownIds \cup {ToUpper(FirstId)}

DriverIdInputs == GoodIds \cup {UnknownId, MalformedId}

\* AttendanceCreate.status is Literal['present', 'absent', 'late']; notes is optional
PresentNone == [status |-> "present", notes |-> None]

LateSick == [status |-> "late", notes |-> Some("sick")]

AbsentNone == [status |-> "absent", notes |-> None]

StatusNotes == {PresentNone, LateSick, AbsentNone}

Payload(driver_id, date, sn) ==
    [driver_id |-> driver_id, date |-> date, status |-> sn.status, notes |-> sn.notes]

\* the bodies of POST /attendance: every status for the first driver on one
\* date, one status for the other pairs, and requests that fail a check
MarkInputs ==
    {Payload(FirstId, Date1Short, sn) : sn \in StatusNotes}
    \cup {Payload(i, Date1, PresentNone) : i \in GoodIds}
    \cup {Payload(FirstId, Date2, PresentNone)}
    \cup {Payload(i, d, sn) : i \in {UnknownId, MalformedId},
                              d \in {Date1, DateSlash}, sn \in {PresentNone, LateSick}}
    \cup {Payload(i, DateSlash, LateSick) : i \in GoodIds}
    \cup {Payload(FirstId, d, PresentNone) : d \in {DateNoSuchDay, DateWords, EmptyStr}}
    \cup {Payload(EmptyStr, Date1, PresentNone)}

\* the bodies of POST /drivers: the client creates these drivers in turn
DriverPayloads == <<[name |-> "Alice", phone |-> None, license_no |-> None],
                    [name |-> "Bob", phone |-> Some("555"), license_no |-> Some("L1")]>>

DriverInputs == {DriverPayloads[(Len(driver) % Len(DriverPayloads)) + 1]}

\* Query parameters: None, the empty string, or a string
QueryDates == {None, Some(EmptyStr), Some(Date1Short), Some(Date2),
               Some(DateSlash), Some(DateNoSuchDay)}

QueryIds == {None, Some(EmptyStr), Some(MalformedId), Some(FirstId),
             Some(ToUpper(FirstId))}

\* The inputs of the concurrent specification
ConcMarkInputs == {Payload(i, Date1Short, sn) : i \in KnownIds,
                                                sn \in {PresentNone, LateSick}}

(***************************************************************************)
(* Requests.  req[p] is the request slot p serves: the handler (op), its   *)
(* position (pc), its arguments, its local variables, and, once            *)
(* pc = "done", the HTTP status code and the response body.  A POST that   *)
(* succeeded keeps its request body in args beside the response; a GET and *)
(* a failed POST leave only the response.                                  *)
(***************************************************************************)
Idle == [op |-> "none", pc |-> "idle", args |-> <<>>, loc |-> <<>>,
         code |-> 0, body |-> <<>>]

Free(p) == req[p].pc \in {"idle", "done"}

Reply(op, args, code, body) ==
    [op |-> op, pc |-> "done", args |-> args, loc |-> <<>>,
     code |-> code, body |-> body]

Running(op, pc, args, loc) ==
    [op |-> op, pc |-> pc, args |-> args, loc |-> loc, code |-> 0, body |-> <<>>]

Init ==
    /\ driver = <<>>
    /\ attendance = <<>>
    /\ req = [p \in Procs |-> Idle]

(***************************************************************************)
(* POST /drivers                                                           *)
(***************************************************************************)
\* line 88: the identifier create_document returns
create_driver_new_id(coll) == OidStr(NewOid("driver", coll))

\* a response built from the first driver of the collection
create_driver_body_first(coll, new_id) == serialize_id(coll[1])

\* lines 89-90: doc = find_one({"_id": ObjectId(new_id)}); return serialize_id(doc)
create_driver_body(coll, new_id) ==
    serialize_id(find_one(coll, [_id |-> ObjectId(new_id)]))

\* the whole handler
create_driver(p, payload) ==
    /\ Free(p)
    /\ Len(driver) < MaxDrivers
    /\ driver' = create_document("driver", driver, payload)
    /\ req' = [req EXCEPT ![p] =
                 Reply("create_driver", payload, 200,
                       create_driver_body(driver', create_driver_new_id(driver)))]
    /\ UNCHANGED attendance

\* lines 87-88: driver = payload.model_dump(); new_id = create_document(...)
create_driver_insert(p, payload) ==
    /\ Free(p)
    /\ Len(driver) < MaxDrivers
    /\ driver' = create_document("driver", driver, payload)
    /\ req' = [req EXCEPT ![p] = Running("create_driver", "cd_return", payload,
                                         [new_id |-> create_driver_new_id(driver)])]
    /\ UNCHANGED attendance

\* lines 89-90
create_driver_return(p) ==
    /\ req[p].pc = "cd_return"
    /\ req' = [req EXCEPT ![p] =
                 Reply("create_driver", req[p].args, 200,
                       create_driver_body(driver, req[p].loc.new_id))]
    /\ UNCHANGED <<driver, attendance>>

(***************************************************************************)
(* GET /drivers                                                            *)
(***************************************************************************)
list_drivers_body == SerializeAll(get_documents(driver, <<>>))

list_drivers(p) ==
    /\ Free(p)
    /\ req' = [req EXCEPT ![p] = Reply("list_drivers", <<>>, 200, list_drivers_body)]
    /\ UNCHANGED <<driver, attendance>>

(***************************************************************************)
(* POST /attendance                                                        *)
(***************************************************************************)
Detail(code, text) == [code |-> code, detail |-> text]

\* the checks without the lookup of the driver
mark_attendance_checks_no_lookup(payload) ==
    IF ~ObjectIdValid(payload.driver_id)
    THEN Detail(400, "Invalid driver_id")
    ELSE IF ~normalize_date(payload.date).ok
    THEN Detail(400, "Invalid date format. Use YYYY-MM-DD")
    ELSE Detail(0, "")

\* the checks with the date normalised before the driver is looked up
mark_attendance_checks_date_first(payload) ==
    IF ~ObjectIdValid(payload.driver_id)
    THEN Detail(400, "Invalid driver_id")
    ELSE IF ~normalize_date(payload.date).ok
    THEN Detail(400, "Invalid date format. Use YYYY-MM-DD")
    ELSE IF ~Truthy(find_one(driver, [_id |-> ObjectId(payload.driver_id)]))
    THEN Detail(404, "Driver not found")
    ELSE Detail(0, "")

\* lines 103-112: the three checks, in the order the handler makes them;
\* code 0 means that all of them passed
mark_attendance_checks(payload) ==
    IF ~ObjectIdValid(payload.driver_id)
    THEN Detail(400, "Invalid driver_id")
    ELSE IF ~Truthy(find_one(driver, [_id |-> ObjectId(payload.driver_id)]))
    THEN Detail(404, "Driver not found")
    ELSE IF ~normalize_date(payload.date).ok
    THEN Detail(400, "Invalid date format. Use YYYY-MM-DD")
    ELSE Detail(0, "")

\* a lookup of the existing record that forgets the date
attendance_key_without_date(payload, date_norm) ==
    [driver_id |-> payload.driver_id]

\* line 115: the filter of the lookup of the existing record
attendance_key(payload, date_norm) ==
    [driver_id |-> payload.driver_id, date |-> date_norm]

\* lines 116-121: data
attendance_data(payload, date_norm) ==
    [driver_id |-> payload.driver_id, date |-> date_norm,
     status |-> payload.status, notes |-> payload.notes]

\* a write that inserts whatever the lookup found
mark_attendance_store_always_insert(coll, existing, data) ==
    create_document("attendance", coll, data)

\* a write that stamps updated_at on the records it inserts too
mark_attendance_store_stamp_insert(coll, existing, data) ==
    IF Truthy(existing)
    THEN update_one(coll, [_id |-> existing["_id"]],
                    [updated_at |-> utcnow] @@ data)
    ELSE create_document("attendance", coll, [updated_at |-> utcnow] @@ data)

\* lines 122-126: the attendance collection after the write
mark_attendance_store(coll, existing, data) ==
    IF Truthy(existing)
    THEN update_one(coll, [_id |-> existing["_id"]],
                    [updated_at |-> utcnow] @@ data)
    ELSE create_document("attendance", coll, data)

\* lines 124 and 127: the _id of the document fetched again after the write
mark_attendance_fetch(coll, existing) ==
    IF Truthy(existing) THEN existing["_id"]
    ELSE ObjectId(OidStr(NewOid("attendance", coll)))

\* the whole handler
mark_attendance(p, payload) ==
    /\ Free(p)
    /\ LET c == mark_attendance_checks(payload) IN
       IF c.code # 0
       THEN /\ req' = [req EXCEPT ![p] = Reply("mark_attendance", <<>>, c.code,
                                               [detail |-> c.detail])]
            /\ UNCHANGED attendance
       ELSE LET date_norm == normalize_date(payload.date).value
                existing == find_one(attendance, attendance_key(payload, date_norm))
                data == attendance_data(payload, date_norm)
            IN  /\ Truthy(existing) \/ Len(attendance) < MaxAttendance
                /\ attendance' = mark_attendance_store(attendance, existing, data)
                /\ req' = [req EXCEPT ![p] =
                             Reply("mark_attendance", payload, 200,
                                   serialize_id(find_one(attendance',
                                       [_id |-> mark_attendance_fetch(attendance,
                                                                      existing)])))]
    /\ UNCHANGED driver

\* Requests that have passed the checks and may still insert a record: the
\* model admits a request only while the collection has room for its insert.
PendingInserts ==
    Cardinality({q \in Procs : /\ req[q].op = "mark_attendance"
                               /\ \/ req[q].pc = "ma_find"
                                  \/ /\ req[q].pc = "ma_write"
                                     /\ ~Truthy(req[q].loc.existing)})

HasRoom(payload) ==
    \/ Len(attendance) + PendingInserts < MaxAttendance
    \/ Truthy(find_one(attendance,
                       attendance_key(payload, normalize_date(payload.date).value)))

\* lines 101-112
mark_attendance_validate(p, payload) ==
    /\ Free(p)
    /\ LET c == mark_attendance_checks(payload) IN
       IF c.code # 0
       THEN req' = [req EXCEPT ![p] =
                      Reply("mark_attendance", <<>>, c.code, [detail |-> c.detail])]
       ELSE /\ HasRoom(payload)
            /\ req' = [req EXCEPT ![p] =
                         Running("mark_attendance", "ma_find", payload,
                                 [date_norm |-> normalize_date(payload.date).value])]
    /\ UNCHANGED <<driver, attendance>>

\* line 115: existing = db["attendance"].find_one({driver_id, date})
mark_attendance_find(p) ==
    /\ req[p].pc = "ma_find"
    /\ req' = [req EXCEPT ![p].pc = "ma_write",
                          ![p].loc = [date_norm |-> req[p].loc.date_norm,
                                      existing |-> find_one(attendance,
                                          attendance_key(req[p].args,
                                                         req[p].loc.date_norm))]]
    /\ UNCHANGED <<driver, attendance>>

\* lines 116-123 and 125-126: update the record found, or insert a new one
mark_attendance_write(p) ==
    /\ req[p].pc = "ma_write"
    /\ attendance' = mark_attendance_store(attendance, req[p].loc.existing,
                         attendance_data(req[p].args, req[p].loc.date_norm))
    /\ req' = [req EXCEPT ![p].pc = "ma_return",
                          ![p].loc = [fetch |-> mark_attendance_fetch(attendance,
                                                     req[p].loc.existing)]]
    /\ UNCHANGED driver

\* lines 124, 127, 128: doc = find_one({"_id": ...}); return serialize_id(doc)
mark_attendance_return(p) ==
    /\ req[p].pc = "ma_return"
    /\ req' = [req EXCEPT ![p] =
                 Reply("mark_attendance", req[p].args, 200,
                       serialize_id(find_one(attendance, [_id |-> req[p].loc.fetch])))]
    /\ UNCHANGED <<driver, attendance>>

(***************************************************************************)
(* GET /attendance                                                         *)
(***************************************************************************)
\* "if date:" and "if driver_id:": None and the empty string are falsy
Given(param) == param # None /\ param # Some(EmptyStr)

Value(param) == CHOOSE v \in param : TRUE

\* a filter that forgets the date
get_attendance_filter_no_date(date, driver_id) ==
    IF Given(driver_id) THEN [driver_id |-> Value(driver_id)] ELSE <<>>

\* lines 133-141: filter_q, once both parameters have passed their checks
get_attendance_filter(date, driver_id) ==
    (IF Given(date) THEN [date |-> normalize_date(Value(date)).value] ELSE <<>>)
    @@ (IF Given(driver_id) THEN [driver_id |-> Value(driver_id)] ELSE <<>>)

\* the checks without the check of driver_id
get_attendance_checks_no_id_check(date, driver_id) ==
    IF Given(date) /\ ~normalize_date(Value(date)).ok
    THEN Detail(400, "Invalid date format. Use YYYY-MM-DD")
    ELSE Detail(0, "")

\* lines 134 and 137-140: the two checks, in the order the handler makes
\* them; code 0 means that both passed
get_attendance_checks(date, driver_id) ==
    IF Given(date) /\ ~normalize_date(Value(date)).ok
    THEN Detail(400, "Invalid date format. Use YYYY-MM-DD")
    ELSE IF Given(driver_id) /\ ~ObjectIdValid(Value(driver_id))
    THEN Detail(400, "Invalid driver_id")
    ELSE Detail(0, "")

\* lines 133-143: [code, body]
get_attendance_result(date, driver_id) ==
    LET c == get_attendance_checks(date, driver_id) IN
    IF c.code # 0
    THEN [code |-> c.code, body |-> [detail |-> c.detail]]
    ELSE [code |-> 200,
          body |-> SerializeAll(get_documents(attendance,
                                    get_attendance_filter(date, driver_id)))]

get_attendance(p, date, driver_id) ==
    /\ Free(p)
    /\ LET r == get_attendance_result(date, driver_id) IN
       req' = [req EXCEPT ![p] =
                 Reply("get_attendance", <<>>, r.code, r.body)]
    /\ UNCHANGED <<driver, attendance>>

(***************************************************************************)
(* GET /attendance/summary                                                 *)
(***************************************************************************)
RECURSIVE SumValues(_, _)
SumValues(f, keys) ==
    IF keys = {} THEN 0
    ELSE LET k == CHOOSE x \in keys : TRUE IN f[k] + SumValues(f, keys \ {k})

\* counts.get(key, 0)
GetOr0(counts, key) == IF key \in DOMAIN counts THEN counts[key] ELSE 0

\* lines 153-161: $match on driver_id, $group by status with $sum 1
status_counts(driver_id) ==
    LET m == get_documents(attendance, [driver_id |-> driver_id])
        groups == {m[i].status : i \in 1..Len(m)}
    IN  [g \in groups |-> Cardinality({i \in 1..Len(m) : m[i].status = g})]

\* a summary whose total is the number of statuses that occur
summary_body_total_groups(driver_id, counts) ==
    [driver_id |-> driver_id,
     total_days |-> Cardinality(DOMAIN counts),
     present |-> GetOr0(counts, "present"),
     absent |-> GetOr0(counts, "absent"),
     late |-> GetOr0(counts, "late")]

\* lines 162-169: the summary object
summary_body(driver_id, counts) ==
    [driver_id |-> driver_id,
     total_days |-> SumValues(counts, DOMAIN counts),
     present |-> GetOr0(counts, "present"),
     absent |-> GetOr0(counts, "absent"),
     late |-> GetOr0(counts, "late")]

\* lines 148-169: [code, body]
attendance_summary_result(driver_id) ==
    IF ~ObjectIdValid(driver_id)
    THEN [code |-> 400, body |-> [detail |-> "Invalid driver_id"]]
    ELSE [code |-> 200, body |-> summary_body(driver_id, status_counts(driver_id))]

attendance_summary(p, driver_id) ==
    /\ Free(p)
    /\ LET r == attendance_summary_result(driver_id) IN
       req' = [req EXCEPT ![p] =
                 Reply("attendance_summary", <<>>, r.code, r.body)]
    /\ UNCHANGED <<driver, attendance>>

(***************************************************************************)
(* Specifications.  SeqSpec: one request at a time, each handler running   *)
(* to completion.  Spec: the requests of Procs run concurrently, and the   *)
(* handlers that access the store more than once take one step per access. *)
(***************************************************************************)
SeqNext ==
    \/ \E p \in SeqProcs, payload \in DriverInputs : create_driver(p, payload)
    \/ \E p \in SeqProcs : list_drivers(p)
    \/ \E p \in SeqProcs, payload \in MarkInputs : mark_attendance(p, payload)
    \/ \E p \in SeqProcs, date \in QueryDates, driver_id \in QueryIds :
           get_attendance(p, date, driver_id)
    \/ \E p \in SeqProcs, driver_id \in DriverIdInputs : attendance_summary(p, driver_id)

SeqSpec == Init /\ [][SeqNext]_vars

Next ==
    \/ \E p \in Procs, payload \in DriverInputs : create_driver_insert(p, payload)
    \/ \E p \in Procs : create_driver_return(p)
    \/ \E p \in Procs, payload \in ConcMarkInputs : mark_attendance_validate(p, payload)
    \/ \E p \in Procs : mark_attendance_find(p)
    \/ \E p \in Procs : mark_attendance_write(p)
    \/ \E p \in Procs : mark_attendance_return(p)

Spec == Init /\ [][Next]_vars

(***************************************************************************)
(* Vocabulary of the properties.  SeqSpec serves every request in slot 1,  *)
(* so req[1] is the last request served, with its response.                *)
(***************************************************************************)
Last == req[1]

Served(op) == Last.pc = "done" /\ Last.op = op

\* the positions of the attendance records of coll with this driver_id and date
RecordsFor(coll, driver_id, date) ==
    {i \in 1..Len(coll) : coll[i].driver_id = driver_id /\ coll[i].date = date}

\* the (driver_id, date) pairs that have a record in coll
Pairs(coll) == {<<coll[i].driver_id, coll[i].date>> : i \in 1..Len(coll)}

\* the pair a successful mark_attendance request is for
PairOf(args) == <<args.driver_id, normalize_date(args.date).value>>

HasUpdatedAt(doc) == "updated_at" \in DOMAIN doc

\* the identifier strings of the shape ObjectId wants: OidHexLen hexadecimal
\* characters
WellFormedIds ==
    {s \in IdStrings : Len(s) = OidHexLen /\ \A i \in 1..Len(s) : IsHexChar(s[i])}

WellFormedId(s) == s \in WellFormedIds

\* some driver has the identifier that the well-formed string s spells
DriverExists(s) == \E i \in 1..Len(driver) : driver[i]["_id"] = ObjectId(s)

\* the date strings of the shape YYYY-MM-DD: ten characters, digits around
\* two dashes
IsoShaped ==
    {s \in DateStrings : /\ Len(s) = 10
                         /\ s[5] = "-" /\ s[8] = "-"
                         /\ \A i \in {1, 2, 3, 4, 6, 7, 9, 10} : IsDigit(s[i])}

IsoShape(s) == s \in IsoShaped

\* the date strings that strptime(s, "%Y-%m-%d") accepts
Parseable == {s \in DateStrings : StrptimeOk(s)}

DateParses(s) == s \in Parseable

\* a query parameter that is sent and is not the empty string
NonEmpty(param) == param # None /\ param # Some(EmptyStr)

\* the public form of the stored document doc is the response object obj
PublicOf(doc, obj) ==
    /\ DOMAIN obj = (DOMAIN doc \ {"_id"}) \cup {"id"}
    /\ obj.id = ObjectIdFormat(doc["_id"])
    /\ \A f \in DOMAIN doc \ {"_id"} : obj[f] = doc[f]

\* the number of records of coll with this driver_id and status
CountStatus(coll, driver_id, status) ==
    Cardinality({i \in 1..Len(coll) : /\ coll[i].driver_id = driver_id
                                      /\ coll[i].status = status})

(***************************************************************************)
(* C1.  Requests served one after another: when a mark_attendance request  *)
(* for a (driver_id, date) pair has succeeded, the collection holds        *)
(* exactly one record for the pair, with the status and notes of that      *)
(* request; and a step changes the records of no pair other than the one   *)
(* the request it serves is for, so the record keeps the input of the last *)
(* request for its pair, whatever is served for other pairs in between.    *)
(***************************************************************************)
C1_MarkedPairHoldsInput ==
    (Served("mark_attendance") /\ Last.code = 200) =>
        LET pair == PairOf(Last.args)
            recs == RecordsFor(attendance, pair[1], pair[2])
        IN  /\ Cardinality(recs) = 1
            /\ \A i \in recs : /\ attendance[i].status = Last.args.status
                               /\ attendance[i].notes = Last.args.notes

C1_OtherPairsUntouched ==
    \/ attendance' = attendance
    \/ \A pair \in Pairs(attendance) \cup Pairs(attendance') :
        \/ /\ req'[1].op = "mark_attendance" /\ req'[1].code = 200
           /\ PairOf(req'[1].args) = pair
        \/ /\ RecordsFor(attendance', pair[1], pair[2])
                  = RecordsFor(attendance, pair[1], pair[2])
           /\ \A i \in RecordsFor(attendance, pair[1], pair[2]) :
                  attendance'[i] = attendance[i]

\* C1: served one after another, mark_attendance leaves exactly one record for
\* the pair it marks, holding the last input, and touches no other pair
C1_OneRecordPerPair ==
    /\ [](C1_MarkedPairHoldsInput /\ \A pair \in Pairs(attendance) :
              Cardinality(RecordsFor(attendance, pair[1], pair[2])) = 1)
    /\ [][C1_OtherPairsUntouched]_vars

\* the pair of the first driver has been marked at least twice (its record
\* was overwritten, last with status late) while another pair has a record
C1_Witness ==
    /\ Served("mark_attendance") /\ Last.code = 200
    /\ Last.args.status = "late" /\ Last.args.date = Date1Short
    /\ Len(attendance) = 2
    /\ \E i \in 1..Len(attendance) :
           /\ <<attendance[i].driver_id, attendance[i].date>> = <<FirstId, Date1>>
           /\ HasUpdatedAt(attendance[i])

(***************************************************************************)
(* C2.  Two concurrent mark_attendance requests for the same driver and    *)
(* the same normalised date can both find no record and both insert, which *)
(* leaves two records for the pair (C2_Witness is such a state).  That is  *)
(* the only way a pair gets a second record: a step that adds a record for *)
(* a pair that already has one is the write of a request whose find_one,   *)
(* made earlier for that pair, had found nothing.                          *)
(***************************************************************************)
C2_StaleInsert(pair) ==
    \E p \in Procs :
        /\ req[p].op = "mark_attendance" /\ req[p].pc = "ma_write"
        /\ ~Truthy(req[p].loc.existing)
        /\ PairOf(req[p].args) = pair
        /\ req'[p].pc = "ma_return"

C2_SecondRecordStep ==
    \/ attendance' = attendance
    \/ \A pair \in Pairs(attendance) :
           Cardinality(RecordsFor(attendance', pair[1], pair[2]))
               > Cardinality(RecordsFor(attendance, pair[1], pair[2]))
           => C2_StaleInsert(pair)

\* C2: a pair gets a second record only by the insert of a concurrent request
\* whose find_one had found nothing
C2_DuplicateOnlyByStaleFind == [][C2_SecondRecordStep]_vars

\* both requests are for one pair, both have inserted, and the collection
\* holds the two records they inserted for that pair
C2_Witness ==
    /\ \A p \in Procs : req[p].op = "mark_attendance" /\ req[p].pc = "ma_return"
    /\ PairOf(req[1].args) = PairOf(req[2].args)
    /\ req[1].loc.fetch # req[2].loc.fetch
    /\ LET pair == PairOf(req[1].args) IN
       /\ Cardinality(RecordsFor(attendance, pair[1], pair[2])) = 2
       /\ \A i \in RecordsFor(attendance, pair[1], pair[2]) :
              /\ attendance[i]["_id"] \in {req[1].loc.fetch, req[2].loc.fetch}
              /\ ~HasUpdatedAt(attendance[i])

(***************************************************************************)
(* C3.  In every state, a mark_attendance request whose driver_id is a     *)
(* well-formed identifier of no driver is answered 404 "Driver not found", *)
(* whatever its date, status and notes; a request answered 404 leaves both *)
(* collections as they were, and a request is answered 200 only if its     *)
(* driver exists.                                                          *)
(***************************************************************************)
C3_UnknownDriverOutcome ==
    \A payload \in MarkInputs :
        (WellFormedId(payload.driver_id) /\ ~DriverExists(payload.driver_id))
        => mark_attendance_checks(payload) = Detail(404, "Driver not found")

C3_NotFoundStep ==
    /\ (req'[1].op = "mark_attendance" /\ req'[1].code = 404)
       => (attendance' = attendance /\ driver' = driver)
    /\ (req'[1].op = "mark_attendance" /\ req'[1].code = 200)
       => DriverExists(req'[1].args.driver_id)

\* C3: a well-formed driver_id of no driver is answered 404, and a 404 changes
\* neither collection
C3_UnknownDriverIs404 == []C3_UnknownDriverOutcome /\ [][C3_NotFoundStep]_vars

\* a request was answered 404 while drivers and attendance records exist
C3_Witness ==
    /\ Served("mark_attendance") /\ Last.code = 404
    /\ Last.body = [detail |-> "Driver not found"]
    /\ Len(driver) >= 1 /\ Len(attendance) >= 1

(***************************************************************************)
(* C4, as the specification states it: a mark_attendance or get_attendance *)
(* request with a malformed driver_id, or with a date that is not of the   *)
(* shape YYYY-MM-DD, is answered 400 in every state, whatever its other    *)
(* fields are.                                                             *)
(***************************************************************************)
C4_MalformedStep ==
    /\ \A payload \in MarkInputs :
           ((~WellFormedId(payload.driver_id) \/ ~IsoShape(payload.date))
                /\ mark_attendance(1, payload))
           => req'[1].code = 400
    /\ \A date \in QueryDates, driver_id \in QueryIds :
           (((NonEmpty(date) /\ ~IsoShape(Value(date)))
                 \/ (NonEmpty(driver_id) /\ ~WellFormedId(Value(driver_id))))
                /\ get_attendance(1, date, driver_id))
           => req'[1].code = 400

\* C4 as stated: every step that serves such a request answers 400
C4_MalformedAlways400 == [][C4_MalformedStep]_vars

(***************************************************************************)
(* C4, amended.  In every state: a mark_attendance request with a          *)
(* malformed driver_id is answered 400; one with a well-formed driver_id   *)
(* and a date that strptime("%Y-%m-%d") rejects is answered 400 if the     *)
(* driver exists and 404 if it does not; a get_attendance request with a   *)
(* non-empty date that strptime rejects, or a non-empty malformed          *)
(* driver_id, is answered 400, and an empty parameter is treated as        *)
(* absent.  strptime accepts a month or day of one digit, so 2024-1-5 is   *)
(* not rejected.                                                           *)
(***************************************************************************)
C4_MarkRejections ==
    \A payload \in MarkInputs :
        LET c == mark_attendance_checks(payload).code IN
        /\ ~WellFormedId(payload.driver_id) => c = 400
        /\ (WellFormedId(payload.driver_id) /\ ~DateParses(payload.date))
           => c = (IF DriverExists(payload.driver_id) THEN 400 ELSE 404)
        /\ (WellFormedId(payload.driver_id) /\ DriverExists(payload.driver_id)
                /\ DateParses(payload.date))
           => c = 0

C4_QueryRejections ==
    \A date \in QueryDates, driver_id \in QueryIds :
        LET bad == \/ (NonEmpty(date) /\ ~DateParses(Value(date)))
                   \/ (NonEmpty(driver_id) /\ ~WellFormedId(Value(driver_id)))
        IN  get_attendance_checks(date, driver_id).code = (IF bad THEN 400 ELSE 0)

\* C4, amended: which malformed requests are answered 400, and the two cases
\* that are not (404 for an unknown driver, an empty query parameter ignored)
C4_Rejections ==
    /\ C4_MarkRejections
    /\ C4_QueryRejections
    /\ Served("get_attendance") => Last.code \in {200, 400}
    /\ (Served("get_attendance") /\ Last.code = 400) =>
           Last.body \in {[detail |-> "Invalid date format. Use YYYY-MM-DD"],
                          [detail |-> "Invalid driver_id"]}
    /\ (Served("mark_attendance") /\ Last.code = 200) =>
           /\ WellFormedId(Last.args.driver_id)
           /\ DateParses(Last.args.date)

\* a request with a malformed driver_id was answered 400 while drivers and
\* attendance records exist
C4_Witness ==
    /\ Served("mark_attendance") /\ Last.code = 400
    /\ Last.body = [detail |-> "Invalid driver_id"]
    /\ Len(driver) >= 1 /\ Len(attendance) >= 1

(***************************************************************************)
(* C5.  In every state every stored status is present, absent or late, and *)
(* attendance_summary for a well-formed driver_id answers 200 with present,*)
(* absent and late the numbers of records of that driver_id with that      *)
(* status and total_days their sum; the summary last served says so of the *)
(* records stored.                                                         *)
(***************************************************************************)
C5_BodyCounts(body) ==
    /\ body.present = CountStatus(attendance, body.driver_id, "present")
    /\ body.absent = CountStatus(attendance, body.driver_id, "absent")
    /\ body.late = CountStatus(attendance, body.driver_id, "late")
    /\ body.total_days = body.present + body.absent + body.late

\* C5: the summary counts the records of the driver_id by status, and
\* total_days is present + absent + late
C5_SummaryCounts ==
    /\ \A i \in 1..Len(attendance) :
           attendance[i].status \in {"present", "absent", "late"}
    /\ \A driver_id \in DriverIdInputs :
           WellFormedId(driver_id) =>
               LET r == attendance_summary_result(driver_id) IN
               /\ r.code = 200
               /\ r.body.driver_id = driver_id
               /\ C5_BodyCounts(r.body)
    /\ (Served("attendance_summary") /\ Last.code = 200) => C5_BodyCounts(Last.body)

\* the first driver has one record, overwritten with status late, and the
\* summary served for that driver is total_days 1, present 0, absent 0, late 1
C5_Witness ==
    /\ Served("attendance_summary")
    /\ Last.body = [driver_id |-> FirstId, total_days |-> 1,
                    present |-> 0, absent |-> 0, late |-> 1]
    /\ \E i \in 1..Len(attendance) :
           /\ attendance[i].driver_id = FirstId
           /\ attendance[i].status = "late"
           /\ HasUpdatedAt(attendance[i])

(***************************************************************************)
(* C6.  In every state a get_attendance request that is answered 200       *)
(* returns the public form of exactly the stored records that match it:    *)
(* all of them with no filter, those whose date is the normalised form of  *)
(* the date parameter, those whose driver_id is the driver_id parameter,   *)
(* or those that match both; and no step removes a record from the store.  *)
(***************************************************************************)
C6_Wanted(date, driver_id) ==
    {i \in 1..Len(attendance) :
        /\ NonEmpty(date) => attendance[i].date = normalize_date(Value(date)).value
        /\ NonEmpty(driver_id) => attendance[i].driver_id = Value(driver_id)}

C6_ExactlyWanted(body, wanted) ==
    /\ Len(body) = Cardinality(wanted)
    /\ \A i \in wanted : \E k \in 1..Len(body) : PublicOf(attendance[i], body[k])
    /\ \A k \in 1..Len(body) : \E i \in wanted : PublicOf(attendance[i], body[k])

C6_Results ==
    \A date \in QueryDates, driver_id \in QueryIds :
        LET r == get_attendance_result(date, driver_id) IN
        r.code = 200 => C6_ExactlyWanted(r.body, C6_Wanted(date, driver_id))

C6_ServedIsStored ==
    (Served("get_attendance") /\ Last.code = 200) =>
        \A k \in 1..Len(Last.body) :
            \E i \in 1..Len(attendance) : PublicOf(attendance[i], Last.body[k])

C6_NoRecordDeleted ==
    /\ Len(attendance') >= Len(attendance)
    /\ \A i \in 1..Len(attendance) : attendance'[i]["_id"] = attendance[i]["_id"]

\* C6: get_attendance returns exactly the stored records that match its
\* filters, and no record is ever removed
C6_ExactFilter ==
    /\ [](C6_Results /\ C6_ServedIsStored)
    /\ [][C6_NoRecordDeleted]_vars

\* a filtered query returned one of the two records stored
C6_Witness ==
    /\ Served("get_attendance") /\ Last.code = 200
    /\ Len(attendance) = 2
    /\ Len(Last.body) = 1

(***************************************************************************)
(* C7.  A create_driver request is answered with a non-empty id that no    *)
(* other driver has and with the name, phone and license_no it sent, and   *)
(* the store holds that driver; no step changes or removes a stored        *)
(* driver; and in every state list_drivers returns every stored driver     *)
(* with its id and fields.                                                 *)
(***************************************************************************)
C7_CreatedIsStored ==
    Served("create_driver") =>
        /\ Last.code = 200
        /\ Last.body.id # EmptyStr
        /\ Last.body.name = Last.args.name
        /\ Last.body.phone = Last.args.phone
        /\ Last.body.license_no = Last.args.license_no
        /\ Cardinality({i \in 1..Len(driver) : PublicOf(driver[i], Last.body)}) = 1
        /\ Cardinality({i \in 1..Len(driver) :
                           ObjectIdFormat(driver[i]["_id"]) = Last.body.id}) = 1

C7_IdsDistinct ==
    \A i, j \in 1..Len(driver) :
        i # j => ObjectIdFormat(driver[i]["_id"]) # ObjectIdFormat(driver[j]["_id"])

C7_ListedAll ==
    /\ Len(list_drivers_body) = Len(driver)
    /\ \A i \in 1..Len(driver) :
           \E k \in 1..Len(list_drivers_body) : PublicOf(driver[i], list_drivers_body[k])
    /\ Served("list_drivers") =>
           \A i \in 1..Len(driver) :
               \E k \in 1..Len(Last.body) : PublicOf(driver[i], Last.body[k])

C7_DriversKept ==
    /\ Len(driver') >= Len(driver)
    /\ \A i \in 1..Len(driver) : driver'[i] = driver[i]

\* C7: a created driver gets a non-empty id of its own, keeps its fields for
\* ever and is listed by list_drivers
C7_DriversPersist ==
    /\ [](C7_CreatedIsStored /\ C7_IdsDistinct /\ C7_ListedAll)
    /\ [][C7_DriversKept]_vars

\* both drivers are listed after attendance has been marked
C7_Witness ==
    /\ Served("list_drivers")
    /\ Len(Last.body) = 2
    /\ Last.body[1].id # Last.body[2].id
    /\ Len(attendance) >= 1

(***************************************************************************)
(* C8.  In every state the outcome of mark_attendance is that of the first *)
(* check that fails, in the order: driver_id parses (else 400 "Invalid     *)
(* driver_id"), the driver exists (else 404), the date normalises (else    *)
(* 400 "Invalid date format"); so a well-formed driver_id of no driver     *)
(* with a malformed date gets 404.  A request that fails a check leaves    *)
(* the attendance collection as it was.                                    *)
(***************************************************************************)
C8_FirstFailure(payload) ==
    IF ~WellFormedId(payload.driver_id) THEN Detail(400, "Invalid driver_id")
    ELSE IF ~DriverExists(payload.driver_id) THEN Detail(404, "Driver not found")
    ELSE IF ~DateParses(payload.date)
    THEN Detail(400, "Invalid date format. Use YYYY-MM-DD")
    ELSE Detail(0, "")

C8_Outcomes ==
    /\ \A payload \in MarkInputs :
           mark_attendance_checks(payload) = C8_FirstFailure(payload)
    /\ \A sn \in StatusNotes :
           mark_attendance_checks(Payload(UnknownId, DateSlash, sn)).code = 404

C8_FailureStep ==
    (req'[1].op = "mark_attendance" /\ req'[1].code # 200)
    => attendance' = attendance

\* C8: mark_attendance answers with the first failing check in the order
\* driver_id shape (400), driver exists (404), date (400), before any write
C8_CheckOrder == []C8_Outcomes /\ [][C8_FailureStep]_vars

\* the third check failed after the first two had passed
C8_Witness ==
    /\ Served("mark_attendance") /\ Last.code = 400
    /\ Last.body = [detail |-> "Invalid date format. Use YYYY-MM-DD"]
    /\ Len(driver) >= 1

(***************************************************************************)
(* C9.  A step changes the attendance collection only by serving a         *)
(* successful mark_attendance request.  If the pair of the request had a   *)
(* record, the step keeps the number of records and every other record,    *)
(* keeps the record's _id, driver_id and date, changes at most its status, *)
(* notes and updated_at, and returns the record's id; if the pair had no   *)
(* record, the step appends one record without updated_at and returns its  *)
(* id.  So a record has updated_at only if it was overwritten, and every   *)
(* mark of a pair returns the id that the first one returned.              *)
(***************************************************************************)
C9_Overwrite(old) ==
    /\ Len(attendance') = Len(attendance)
    /\ \A i \in 1..Len(attendance) :
           IF i \in old
           THEN /\ DOMAIN attendance[i] \subseteq DOMAIN attendance'[i]
                /\ DOMAIN attendance'[i] \subseteq DOMAIN attendance[i] \cup {"updated_at"}
                /\ \A f \in DOMAIN attendance[i] \ {"status", "notes", "updated_at"} :
                       attendance'[i][f] = attendance[i][f]
                /\ HasUpdatedAt(attendance'[i])
                /\ req'[1].body.id = ObjectIdFormat(attendance[i]["_id"])
           ELSE attendance'[i] = attendance[i]

C9_Insert ==
    /\ Len(attendance') = Len(attendance) + 1
    /\ \A i \in 1..Len(attendance) : attendance'[i] = attendance[i]
    /\ ~HasUpdatedAt(attendance'[Len(attendance')])
    /\ req'[1].body.id = ObjectIdFormat(attendance'[Len(attendance')]["_id"])

C9_Step ==
    IF req'[1].op = "mark_attendance" /\ req'[1].code = 200
    THEN LET pair == PairOf(req'[1].args)
             old == RecordsFor(attendance, pair[1], pair[2])
         IN  IF old # {} THEN C9_Overwrite(old) ELSE C9_Insert
    ELSE attendance' = attendance

\* C9: a re-mark changes only status, notes and updated_at of the one record
\* of its pair; only an overwrite gives a record updated_at
C9_RemarkChangesOnly == [][C9_Step]_vars

\* the first record was overwritten and returned under its own id, with
\* status absent, while the other record was never overwritten
C9_Witness ==
    /\ Served("mark_attendance") /\ Last.code = 200
    /\ Last.args.status = "absent"
    /\ Len(attendance) = 2
    /\ Last.body.id = ObjectIdFormat(attendance[1]["_id"])
    /\ HasUpdatedAt(attendance[1]) /\ attendance[1].status = "absent"
    /\ ~HasUpdatedAt(attendance[2])

(***************************************************************************)
(* C10, as the specification states it: in every state the driver_id of    *)
(* every attendance record is the id of a stored driver.                   *)
(***************************************************************************)
C10_ReferentialIntegrity ==
    \A i \in 1..Len(attendance) :
        \E j \in 1..Len(driver) :
            attendance[i].driver_id = ObjectIdFormat(driver[j]["_id"])

====
